---- MODULE Spec2Model ----
(***************************************************************************)
(* A model of the MTProto <-> Pager bridge (src/main.py).                  *)
(*                                                                         *)
(* Strings whose characters matter (identifiers, message text, URLs) are   *)
(* sequences of one-character strings.  A Python value that may be None    *)
(* is a sequence of length at most one: <<>> is None, <<x>> is x.          *)
(***************************************************************************)
EXTENDS Integers, Sequences, FiniteSets, TLC

None == <<>>
Some(x) == <<x>>
IsNone(o) == o = <<>>
Val(o) == o[1]

(***************************************************************************)
(* Bounds of the model.                                                    *)
(***************************************************************************)
\* the longest attachments list of an outbound payload
MaxAtt == 2
\* peer ids -MaxPeer..MaxPeer are round-tripped through the codec
MaxPeer == 120
\* the longest suffix, after "tg_user:", of the tags given to the decoder
MaxSuffixLen == 3

(***************************************************************************)
(* Python string helpers.                                                  *)
(***************************************************************************)
DigitChars == <<"0", "1", "2", "3", "4", "5", "6", "7", "8", "9">>
DigitSet == {DigitChars[i] : i \in 1..10}
DigitVal(c) == (CHOOSE i \in 1..10 : DigitChars[i] = c) - 1
\* the whitespace of the model's alphabet
IsSpace(c) == c = " "

RECURSIVE LStrip(_)
LStrip(s) == IF s # <<>> /\ IsSpace(s[1]) THEN LStrip(Tail(s)) ELSE s

RECURSIVE RStrip(_)
RStrip(s) ==
    IF s # <<>> /\ IsSpace(s[Len(s)]) THEN RStrip(SubSeq(s, 1, Len(s) - 1)) ELSE s

\* str.strip()
Strip(s) == RStrip(LStrip(s))

\* str.startswith(p)
StartsWith(s, p) == Len(s) >= Len(p) /\ SubSeq(s, 1, Len(p)) = p

\* s.split(":", 1)[1]: what follows the first colon
AfterFirstColon(s) ==
    LET k == CHOOSE i \in 1..Len(s) : s[i] = ":" /\ \A j \in 1..(i - 1) : s[j] # ":"
    IN  SubSeq(s, k + 1, Len(s))

\* str(n) of a natural number
RECURSIVE NatToStr(_)
NatToStr(n) ==
    IF n < 10 THEN <<DigitChars[n + 1]>>
    ELSE NatToStr(n \div 10) \o <<DigitChars[(n % 10) + 1]>>

\* str(n), as an f-string formats an int
IntToStr(n) == IF n < 0 THEN <<"-">> \o NatToStr(0 - n) ELSE NatToStr(n)

RECURSIVE DigitsValue(_)
DigitsValue(ds) ==
    IF ds = <<>> THEN 0
    ELSE 10 * DigitsValue(SubSeq(ds, 1, Len(ds) - 1)) + DigitVal(ds[Len(ds)])

\* Python's int(s) of a str, base 10: surrounding whitespace is stripped, one
\* sign is allowed, then digits, with single underscores between digits;
\* anything else raises ValueError
PyIntBrokenSign(s) ==
    LET t == Strip(s)
        signed == t # <<>> /\ t[1] \in {"+", "-"}
        body == IF signed THEN Tail(t) ELSE t
        wellFormed ==
            /\ body # <<>>
            /\ \A i \in 1..Len(body) : body[i] \in DigitSet \cup {"_"}
            /\ body[1] # "_"
            /\ body[Len(body)] # "_"
            /\ \A i \in 1..(Len(body) - 1) : ~(body[i] = "_" /\ body[i + 1] = "_")
        mag == DigitsValue(SelectSeq(body, LAMBDA c : c \in DigitSet))
    IN  IF wellFormed THEN [ok |-> TRUE, val |-> mag] ELSE [ok |-> FALSE, val |-> 0]

PyInt(s) ==
    LET t == Strip(s)
        signed == t # <<>> /\ t[1] \in {"+", "-"}
        body == IF signed THEN Tail(t) ELSE t
        wellFormed ==
            /\ body # <<>>
            /\ \A i \in 1..Len(body) : body[i] \in DigitSet \cup {"_"}
            /\ body[1] # "_"
            /\ body[Len(body)] # "_"
            /\ \A i \in 1..(Len(body) - 1) : ~(body[i] = "_" /\ body[i + 1] = "_")
        mag == DigitsValue(SelectSeq(body, LAMBDA c : c \in DigitSet))
    IN  IF wellFormed
        THEN [ok |-> TRUE, val |-> IF signed /\ t[1] = "-" THEN 0 - mag ELSE mag]
        ELSE [ok |-> FALSE, val |-> 0]

(***************************************************************************)
(* Identifier codec.                                                       *)
(***************************************************************************)
ContactPrefix == <<"t", "g", "_", "u", "s", "e", "r", ":">>
MessagePrefix == <<"t", "g", "_", "m", "s", "g", ":">>

client_external_id(peer_id) == ContactPrefix \o IntToStr(peer_id)

message_external_id(msg_id) == MessagePrefix \o IntToStr(msg_id)

DecodeContactNoPrefixCheck(c_ext) ==
    IF IsNone(c_ext) \/ Val(c_ext) = <<>>
    THEN [status |-> "http400", peer_id |-> 0]
    ELSE IF \A i \in 1..Len(Val(c_ext)) : Val(c_ext)[i] # ":"
    THEN [status |-> "IndexError", peer_id |-> 0]
    ELSE LET n == PyInt(AfterFirstColon(Val(c_ext)))
         IN  IF n.ok THEN [status |-> "ok", peer_id |-> n.val]
             ELSE [status |-> "ValueError", peer_id |-> 0]

\* The decoding step of pager_outbound: c_ext is client_obj.get("externalId"),
\* None when absent.  "ok" carries the peer id; "http400" is the HTTPException
\* of the prefix check; "ValueError" is int() raising, outside any try.
DecodeContact(c_ext) ==
    IF IsNone(c_ext) \/ Val(c_ext) = <<>> \/ ~StartsWith(Val(c_ext), ContactPrefix)
    THEN [status |-> "http400", peer_id |-> 0]
    ELSE LET n == PyInt(AfterFirstColon(Val(c_ext)))
         IN  IF n.ok THEN [status |-> "ok", peer_id |-> n.val]
             ELSE [status |-> "ValueError", peer_id |-> 0]

(***************************************************************************)
(* Configuration and inputs.                                               *)
(***************************************************************************)
\* os.environ["PAGER_CHANNEL_KEY"]
PAGER_KEY == "k"
\* the x-channel-key header: absent, the configured key, another key
Keys == {None, Some("k"), Some("x")}

KeyOkOrMissing(x_channel_key) ==
    IsNone(x_channel_key) \/ x_channel_key = Some(PAGER_KEY)

\* `x_channel_key != PAGER_KEY` is false
KeyOk(x_channel_key) == x_channel_key = Some(PAGER_KEY)

Str_5 == <<"5">>
Str_12 == <<"1", "2">>
\* client.externalId of an outbound payload: absent, empty, wrongly tagged,
\* a well-formed tag, and tags whose suffix is not an integer
CExts ==
    { None, Some(<<>>), Some(<<"t", "g", "_", "u", "s", "r", ":">> \o Str_5),
      Some(ContactPrefix \o Str_12),
      Some(ContactPrefix), Some(ContactPrefix \o <<"a">>) }
\* payload.get("event")
OutEvents == {None, Some("message.created"), Some("message.updated")}
\* message.text: absent, blank, text with surrounding blanks
Texts == {None, Some(<<" ">>), Some(<<"h", "i", " ">>)}
\* the url of one attachment: absent, blank, a URL
Urls == {None, Some(<<" ">>), Some(<<"u">>)}

RECURSIVE SeqsUpTo(_, _)
SeqsUpTo(S, n) ==
    IF n = 0 THEN {<<>>}
    ELSE LET shorter == SeqsUpTo(S, n - 1)
         IN  shorter \cup {Append(q, x) : q \in {p \in shorter : Len(p) = n - 1}, x \in S}

\* message.attachments, each attachment {"payload": {"url": ...}}
AttLists == SeqsUpTo({[url |-> u] : u \in Urls}, MaxAtt)

\* the handler tasks that may be in flight together
Slots == {"t1", "t2"}

VARIABLES
    slot,         \* slot[s]: one handler task: its request, locals, position
    files,        \* the temporary pager_* files present in MEDIA_DIR
    next_msg_id,  \* the id the source network gives the next message
    AVATAR_CACHE, \* user_id -> whether cached, and the url / None cached
    cx            \* the codec under test: input, tag, decoded result

vars == <<slot, files, next_msg_id, AVATAR_CACHE, cx>>

\* The handlers are coroutines of one event loop.  requests.post (pager_post,
\* line 52) is a blocking call, not an await: while a task is inside it the
\* loop runs no other task.
Runnable(s) == \A r \in Slots \ {s} : slot[r].pc # "pager_post"

IdleSlot ==
    [kind |-> "idle", pc |-> "idle", req |-> <<>>, loc |-> <<>>, resp |-> None,
     calls |-> <<>>]

\* an HTTP response: the status, the detail of an HTTPException, the JSON body
Response(status, detail, body) == [status |-> status, detail |-> detail, body |-> body]

\* one call to the source network or to a URL and how it ended: `to` is the
\* peer addressed, `att` the index of the attachment (0: none), `id` the id of
\* the message the call returned
Call(op, to, att, ok, id) ==
    [op |-> op, to |-> to, att |-> att, ok |-> ok, id |-> id, payload |-> <<>>]

IgnoredId == <<"i", "g", "n", "o", "r", "e", "d">>
NoId == <<"n", "o", "i", "d">>
MtprotoPrefix == <<"m", "t", "p", "r", "o", "t", "o", ":">>

ExternalMessageIdWithoutFallback(peer_id, last_sent_id) ==
    MtprotoPrefix \o IntToStr(peer_id) \o <<":">>
        \o (IF IsNone(last_sent_id) THEN <<"N", "o", "n", "e">>
            ELSE IntToStr(Val(last_sent_id)))

\* f"mtproto:{peer_id}:{last_sent_id or 'noid'}"
ExternalMessageId(peer_id, last_sent_id) ==
    MtprotoPrefix \o IntToStr(peer_id) \o <<":">>
        \o (IF IsNone(last_sent_id) \/ Val(last_sent_id) = 0 THEN NoId
            ELSE IntToStr(Val(last_sent_id)))

\* (((a.get("payload") or {}).get("url")) or "").strip()
AttUrl(a) == IF IsNone(a.url) THEN <<>> ELSE Strip(Val(a.url))

\* the next attachment after index i that is not skipped by `continue`; 0 if none
NextUrlIndex(atts, i) ==
    LET js == {j \in (i + 1)..Len(atts) : atts[j] # <<>>}
    IN  IF js = {} THEN 0 ELSE CHOOSE j \in js : \A k \in js : j <= k

\* the for loop of pager_outbound from after attachment i to its next await,
\* or to the return of the response
ContinueLoop(o, i) ==
    LET j == NextUrlIndex(o.loc.atts, i)
    IN  IF j # 0 THEN [o EXCEPT !.pc = "get", !.loc.i = j]
        ELSE [o EXCEPT !.pc = "done",
                       !.resp = Some(Response(200, "",
                            [externalMessageId |->
                                ExternalMessageId(o.loc.peer_id, o.loc.last_sent_id)]))]

EnterTryLoopFirst(o) == ContinueLoop(o, 0)

\* lines 228-236: the text, when there is one, is sent before the loop
EnterTry(o) ==
    IF o.loc.text # <<>> THEN [o EXCEPT !.pc = "send_message"] ELSE ContinueLoop(o, 0)

(***************************************************************************)
(* POST /pager/outbound                                                    *)
(***************************************************************************)
\* the request arrives; the key check; then `await request.json()`
pager_outbound_Auth(s) ==
    /\ Runnable(s)
    /\ slot[s].kind = "idle"
    /\ \E key \in Keys :
        slot' = [slot EXCEPT ![s] =
            IF ~KeyOk(key)
            THEN [IdleSlot EXCEPT !.kind = "outbound", !.pc = "done",
                                  !.req = [key |-> key],
                                  !.resp = Some(Response(401, "bad x-channel-key", <<>>))]
            ELSE [IdleSlot EXCEPT !.kind = "outbound", !.pc = "json",
                                  !.req = [key |-> key]]]
    /\ UNCHANGED <<files, next_msg_id, AVATAR_CACHE, cx>>

EarlyExitIdentifierFirst(event, c_ext) ==
    LET dec == DecodeContact(c_ext)
    IN  IF dec.status = "http400"
        THEN Some(Response(400, "missing/invalid client.externalId", <<>>))
        ELSE IF dec.status = "ValueError"
        THEN Some(Response(500, "Internal Server Error", <<>>))
        ELSE IF event # Some("message.created")
        THEN Some(Response(200, "", [externalMessageId |-> IgnoredId]))
        ELSE None

\* lines 212-225: the response of a request that ends before the try block,
\* None of one that enters it: the event check, the identifier check, then
\* int(), whose ValueError no handler catches (500 Internal Server Error)
EarlyExit(event, c_ext) ==
    LET dec == DecodeContact(c_ext)
    IN  IF event # Some("message.created")
        THEN Some(Response(200, "", [externalMessageId |-> IgnoredId]))
        ELSE IF dec.status = "http400"
        THEN Some(Response(400, "missing/invalid client.externalId", <<>>))
        ELSE IF dec.status = "ValueError"
        THEN Some(Response(500, "Internal Server Error", <<>>))
        ELSE None

\* the body is read; event, identifier and integer checks; up to the first
\* await of the try block.  Of a request that ends here the model keeps the
\* event and the identifier only: text and attachments were read into locals
\* that die with the handler.  Of each attachment the locals keep its url as
\* line 237 computes it.
pager_outbound_Validate(s) ==
    /\ Runnable(s)
    /\ slot[s].kind = "outbound" /\ slot[s].pc = "json"
    /\ \E event \in OutEvents, c_ext \in CExts :
        LET o == [slot[s] EXCEPT !.req = [key |-> slot[s].req.key, event |-> event,
                                          c_ext |-> c_ext]]
            early == EarlyExit(event, c_ext)
        IN  IF ~IsNone(early)
            THEN slot' = [slot EXCEPT ![s] = [o EXCEPT !.pc = "done", !.resp = early]]
            ELSE \E rawtext \in Texts, atts \in AttLists :
                    LET text == IF IsNone(rawtext) THEN <<>> ELSE Strip(Val(rawtext))
                        started ==
                            [o EXCEPT !.loc =
                                [text |-> text,
                                 atts |-> [j \in 1..Len(atts) |-> AttUrl(atts[j])],
                                 i |-> 0,
                                 peer_id |-> DecodeContact(c_ext).peer_id,
                                 last_sent_id |-> None]]
                    IN  slot' = [slot EXCEPT ![s] = EnterTry(started)]
    /\ UNCHANGED <<files, next_msg_id, AVATAR_CACHE, cx>>

pager_outbound_SendMessageContinues(s) ==
    /\ Runnable(s)
    /\ slot[s].kind = "outbound" /\ slot[s].pc = "send_message"
    /\ \E ok \in BOOLEAN :
        LET o == [slot[s] EXCEPT
                    !.calls = Append(@, Call("send_message", slot[s].loc.peer_id, 0, ok,
                                             IF ok THEN Some(next_msg_id) ELSE None)),
                    !.loc.last_sent_id = IF ok THEN Some(next_msg_id) ELSE None]
        IN  /\ slot' = [slot EXCEPT ![s] = ContinueLoop(o, 0)]
            /\ next_msg_id' = IF ok THEN next_msg_id + 1 ELSE next_msg_id
    /\ UNCHANGED <<files, AVATAR_CACHE, cx>>

\* `await tg.send_message(peer_id, text)` returns a message or raises
pager_outbound_SendMessage(s) ==
    /\ Runnable(s)
    /\ slot[s].kind = "outbound" /\ slot[s].pc = "send_message"
    /\ \E ok \in BOOLEAN :
        IF ok
        THEN LET o == [slot[s] EXCEPT
                        !.calls = Append(@, Call("send_message", slot[s].loc.peer_id, 0, TRUE, Some(next_msg_id))),
                        !.loc.last_sent_id = Some(next_msg_id)]
             IN  /\ slot' = [slot EXCEPT ![s] = ContinueLoop(o, 0)]
                 /\ next_msg_id' = next_msg_id + 1
        ELSE /\ slot' = [slot EXCEPT ![s] = [@ EXCEPT
                        !.calls = Append(@, Call("send_message", slot[s].loc.peer_id, 0, FALSE, None)),
                        !.pc = "done",
                        !.resp = Some(Response(500, "send failed", <<>>))]]
             /\ UNCHANGED next_msg_id
    /\ UNCHANGED <<files, AVATAR_CACHE, cx>>

pager_outbound_GetAborts(s) ==
    /\ Runnable(s)
    /\ slot[s].kind = "outbound" /\ slot[s].pc = "get"
    /\ \E ok \in BOOLEAN :
        LET i == slot[s].loc.i
            o == [slot[s] EXCEPT !.calls = Append(@, Call("get", 0, i, ok, None))]
        IN  IF ok
            THEN /\ slot' = [slot EXCEPT ![s] = [o EXCEPT !.pc = "send_file"]]
                 /\ files' = files \cup {<<s, i>>}
            ELSE /\ slot' = [slot EXCEPT ![s] = [o EXCEPT !.pc = "done",
                                !.resp = Some(Response(500, "send failed", <<>>))]]
                 /\ UNCHANGED files
    /\ UNCHANGED <<next_msg_id, AVATAR_CACHE, cx>>

\* `await client.get(url)` returns; raise_for_status; on success the bytes are
\* written to the temporary file and send_file is awaited
pager_outbound_Get(s) ==
    /\ Runnable(s)
    /\ slot[s].kind = "outbound" /\ slot[s].pc = "get"
    /\ \E ok \in BOOLEAN :
        LET i == slot[s].loc.i
            o == [slot[s] EXCEPT !.calls = Append(@, Call("get", 0, i, ok, None))]
        IN  IF ok
            THEN /\ slot' = [slot EXCEPT ![s] = [o EXCEPT !.pc = "send_file"]]
                 /\ files' = files \cup {<<s, i>>}
            ELSE /\ slot' = [slot EXCEPT ![s] = ContinueLoop(o, i)]
                 /\ UNCHANGED files
    /\ UNCHANGED <<next_msg_id, AVATAR_CACHE, cx>>

\* `await tg.send_file(peer_id, str(tmp_path))` returns a message, and the
\* temporary file is unlinked, or raises into the attachment's except
pager_outbound_SendFile(s) ==
    /\ Runnable(s)
    /\ slot[s].kind = "outbound" /\ slot[s].pc = "send_file"
    /\ \E ok \in BOOLEAN :
        LET i == slot[s].loc.i
        IN  IF ok
            THEN LET o == [slot[s] EXCEPT
                        !.calls = Append(@, Call("send_file", slot[s].loc.peer_id, i, TRUE, Some(next_msg_id))),
                        !.loc.last_sent_id = Some(next_msg_id)]
                 IN  /\ slot' = [slot EXCEPT ![s] = ContinueLoop(o, i)]
                     /\ files' = files \ {<<s, i>>}
                     /\ next_msg_id' = next_msg_id + 1
            ELSE LET o == [slot[s] EXCEPT
                        !.calls = Append(@, Call("send_file", slot[s].loc.peer_id, i, FALSE, None))]
                 IN  /\ slot' = [slot EXCEPT ![s] = ContinueLoop(o, i)]
                     /\ UNCHANGED <<files, next_msg_id>>
    /\ UNCHANGED <<AVATAR_CACHE, cx>>

(***************************************************************************)
(* POST /start_chat_by_phone                                               *)
(***************************************************************************)
\* data.get("phone"): absent, without "+", with "+", with "+" after a blank
Phones == {None, Some(<<"3", "8">>), Some(<<"+", "3", "8">>), Some(<<" ", "+", "3", "8">>)}
\* data.get("text"): absent (the greeting is used) or supplied
DefaultText == <<"d", "e", "f">>
StartTexts == {None, Some(<<"y", "o", " ">>)}
\* the ids of the contacts of the model, and of the bridge's own account
ContactIds == {5, 12}
SelfId == 9

\* the request arrives; the key check; then `await request.json()`
start_chat_by_phone_Auth(s) ==
    /\ Runnable(s)
    /\ slot[s].kind = "idle"
    /\ \E key \in Keys :
        slot' = [slot EXCEPT ![s] =
            IF ~KeyOk(key)
            THEN [IdleSlot EXCEPT !.kind = "start_chat", !.pc = "done",
                                  !.req = [key |-> key],
                                  !.resp = Some(Response(401, "bad x-channel-key", <<>>))]
            ELSE [IdleSlot EXCEPT !.kind = "start_chat", !.pc = "json",
                                  !.req = [key |-> key]]]
    /\ UNCHANGED <<files, next_msg_id, AVATAR_CACHE, cx>>

\* the body is read; the phone check; then the contact import is awaited
start_chat_by_phone_Validate(s) ==
    /\ Runnable(s)
    /\ slot[s].kind = "start_chat" /\ slot[s].pc = "json"
    /\ \E rawphone \in Phones, rawtext \in StartTexts :
        LET phone == IF IsNone(rawphone) THEN <<>> ELSE Strip(Val(rawphone))
            text == Strip(IF IsNone(rawtext) \/ Val(rawtext) = <<>> THEN DefaultText
                          ELSE Val(rawtext))
            o == [slot[s] EXCEPT !.req = [key |-> slot[s].req.key, phone |-> rawphone],
                                 !.loc = [phone |-> phone, text |-> text, user_id |-> 0]]
        IN  slot' = [slot EXCEPT ![s] =
                IF ~StartsWith(phone, <<"+">>)
                THEN [o EXCEPT !.pc = "done",
                        !.resp = Some(Response(400, "phone must be in +380... format", <<>>))]
                ELSE [o EXCEPT !.pc = "import"]]
    /\ UNCHANGED <<files, next_msg_id, AVATAR_CACHE, cx>>

start_chat_by_phone_ImportSwallows404(s) ==
    /\ Runnable(s)
    /\ slot[s].kind = "start_chat" /\ slot[s].pc = "import"
    /\ \E users \in {<<>>} \cup {<<u>> : u \in ContactIds}, raises \in BOOLEAN :
        slot' = [slot EXCEPT ![s] =
            IF raises \/ users = <<>>
            THEN [@ EXCEPT !.calls = Append(@, Call("import", 0, 0, ~raises, None)),
                           !.pc = "done", !.resp = Some(Response(500, "failed", <<>>))]
            ELSE [@ EXCEPT !.calls = Append(@, Call("import", 0, 0, TRUE, None)),
                           !.loc.user_id = users[1], !.pc = "send_message"]]
    /\ UNCHANGED <<files, next_msg_id, AVATAR_CACHE, cx>>

\* `await tg(ImportContactsRequest(...))` returns users, returns none, or raises
start_chat_by_phone_Import(s) ==
    /\ Runnable(s)
    /\ slot[s].kind = "start_chat" /\ slot[s].pc = "import"
    /\ \E users \in {<<>>} \cup {<<u>> : u \in ContactIds}, raises \in BOOLEAN :
        slot' = [slot EXCEPT ![s] =
            IF raises
            THEN [@ EXCEPT !.calls = Append(@, Call("import", 0, 0, FALSE, None)),
                           !.pc = "done", !.resp = Some(Response(500, "failed", <<>>))]
            ELSE IF users = <<>>
            THEN [@ EXCEPT !.calls = Append(@, Call("import", 0, 0, TRUE, None)),
                           !.pc = "done",
                           !.resp = Some(Response(404,
                               "user not found by phone (maybe hidden / not on Telegram)", <<>>))]
            ELSE [@ EXCEPT !.calls = Append(@, Call("import", 0, 0, TRUE, None)),
                           !.loc.user_id = users[1], !.pc = "send_message"]]
    /\ UNCHANGED <<files, next_msg_id, AVATAR_CACHE, cx>>

\* `await tg.send_message(user.id, text)` returns a message or raises
start_chat_by_phone_SendMessage(s) ==
    /\ Runnable(s)
    /\ slot[s].kind = "start_chat" /\ slot[s].pc = "send_message"
    /\ \E ok \in BOOLEAN :
        LET user_id == slot[s].loc.user_id
        IN  IF ok
            THEN /\ slot' = [slot EXCEPT ![s] = [@ EXCEPT
                        !.calls = Append(@, Call("send_message", user_id, 0, TRUE,
                                                 Some(next_msg_id))),
                        !.pc = "done",
                        !.resp = Some(Response(200, "",
                            [ok |-> TRUE, phone |-> slot[s].loc.phone,
                             telegramUserId |-> user_id,
                             clientExternalId |-> client_external_id(user_id),
                             sentMessageId |-> Some(next_msg_id)]))]]
                 /\ next_msg_id' = next_msg_id + 1
            ELSE /\ slot' = [slot EXCEPT ![s] = [@ EXCEPT
                        !.calls = Append(@, Call("send_message", user_id, 0, FALSE, None)),
                        !.pc = "done", !.resp = Some(Response(500, "failed", <<>>))]]
                 /\ UNCHANGED next_msg_id
    /\ UNCHANGED <<files, AVATAR_CACHE, cx>>

(***************************************************************************)
(* Telegram -> Pager: on_new_message                                       *)
(***************************************************************************)
\* the chats whose events the model delivers
EventChats == {5}
UserIds == ContactIds \cup {SelfId}
\* event.raw_text
RawTexts == {None, Some(<<"h", "i", " ">>)}
\* the media of an event
MediaKinds == {"none", "photo"}
\* what requests.post does: a status below 400, one from 400 on, an exception
PostOutcomes == {"ok", "http_error", "raises"}

\* an entity of the source network, as get_sender returns it
User(id, photo) ==
    [id |-> id, photo |-> photo,
     first_name |-> IF id = 5 THEN Some(<<"A">>) ELSE None,
     username |-> IF id = SelfId THEN Some(<<"m", "e">>) ELSE None]

NewEvents ==
    [is_private : BOOLEAN, out : BOOLEAN, chat_id : EventChats, raw_text : RawTexts,
     media : MediaKinds]

PassesFilterAlways(event) == TRUE

\* `if not event.is_private: return`
PassesFilter(event) == event.is_private

\* event.sender_id: the account that wrote the message
SenderId(event) == IF event.out THEN SelfId ELSE event.chat_id

pager_attachment_type_from_telethon_event(event) ==
    IF event.media = "photo" THEN "image"
    ELSE IF event.media = "video" THEN "video"
    ELSE IF event.media = "audio" THEN "audio"
    ELSE "file"

NoEntry == [present |-> FALSE, url |-> None]
Entry(url) == [present |-> TRUE, url |-> url]

CallPost(ok, payload) ==
    [op |-> "pager_post", to |-> 0, att |-> 0, ok |-> ok, id |-> None, payload |-> payload]

\* the handler came to its end, or its `except Exception` caught and printed
Returned == Some([status |-> "returned"])

\* lines 176-197: the payload is built and pager_post called: the task is
\* inside requests.post
Dispatch(o, image_url) ==
    LET sender == o.loc.sender
        name == IF IsNone(sender) THEN None
                ELSE IF ~IsNone(Val(sender).first_name) /\ Val(Val(sender).first_name) # <<>>
                THEN Val(sender).first_name
                ELSE IF ~IsNone(Val(sender).username) /\ Val(Val(sender).username) # <<>>
                THEN Val(sender).username
                ELSE None
        payload ==
            [event |-> "message.created",
             client |-> [externalId |-> client_external_id(o.loc.peer_id),
                         name |-> name, imageUrl |-> image_url],
             message |-> [externalId |-> message_external_id(o.req.id),
                          direction |-> o.loc.direction,
                          text |-> o.loc.text,
                          attachments |-> o.loc.attachments]]
    IN  [o EXCEPT !.pc = "pager_post", !.loc.payload = payload]

\* get_userpic_url up to its await, or to its return and the dispatch
Userpic(o, cache) ==
    LET sender == o.loc.sender
        user_id == Val(sender).id
    IN  IF IsNone(sender) \/ user_id = 0
        THEN [slot |-> Dispatch(o, None), cache |-> cache]
        ELSE IF cache[user_id].present
        THEN [slot |-> Dispatch(o, cache[user_id].url), cache |-> cache]
        ELSE IF ~Val(sender).photo
        THEN [slot |-> Dispatch(o, None),
              cache |-> [cache EXCEPT ![user_id] = Entry(None)]]
        ELSE [slot |-> [o EXCEPT !.pc = "download_profile_photo"], cache |-> cache]

\* an event arrives; the privacy filter; then `await event.get_sender()`.
\* `prior` keeps which handlers of events had returned by then: the events
\* this one comes later than.
on_new_message_Start(s) ==
    /\ Runnable(s)
    /\ slot[s].kind = "idle"
    /\ \E e \in NewEvents :
        LET event == [is_private |-> e.is_private, out |-> e.out, chat_id |-> e.chat_id,
                      raw_text |-> e.raw_text, media |-> e.media, id |-> next_msg_id,
                      prior |-> {r \in Slots : slot[r].kind = "event"
                                                /\ slot[r].pc = "done"}]
        IN  slot' = [slot EXCEPT ![s] =
                [IdleSlot EXCEPT !.kind = "event", !.req = event,
                                 !.pc = IF PassesFilter(event) THEN "get_sender" ELSE "done",
                                 !.resp = IF PassesFilter(event) THEN None ELSE Returned]]
    /\ next_msg_id' = next_msg_id + 1
    /\ UNCHANGED <<files, AVATAR_CACHE, cx>>

\* get_sender returns an entity, returns None, or raises; lines 164-170 and
\* save_telegram_media_and_get_attachments up to its await; without media,
\* on to get_userpic_url
on_new_message_GetSender(s) ==
    /\ Runnable(s)
    /\ slot[s].kind = "event" /\ slot[s].pc = "get_sender"
    /\ \E outcome \in {"user", "none", "raises"}, photo \in BOOLEAN :
        LET event == slot[s].req
            sender == IF outcome = "user" THEN Some(User(SenderId(event), photo)) ELSE None
            o == [slot[s] EXCEPT
                    !.calls = Append(@, Call("get_sender", 0, 0, outcome # "raises", None)),
                    !.loc = [sender |-> sender,
                             peer_id |-> IF IsNone(sender) THEN SenderId(event)
                                         ELSE Val(sender).id,
                             direction |-> IF event.out THEN "outgoing" ELSE "incoming",
                             text |-> IF IsNone(event.raw_text) THEN <<>>
                                      ELSE Val(event.raw_text),
                             local_path |-> None, attachments |-> <<>>,
                             payload |-> <<>>]]
            r == Userpic(o, AVATAR_CACHE)
        IN  IF outcome = "raises"
            THEN /\ slot' = [slot EXCEPT ![s] = [@ EXCEPT !.pc = "done",
                        !.resp = Returned,
                        !.calls = Append(@, Call("get_sender", 0, 0, FALSE, None))]]
                 /\ UNCHANGED AVATAR_CACHE
            ELSE IF event.media # "none"
            THEN /\ slot' = [slot EXCEPT ![s] = [o EXCEPT !.pc = "download_media"]]
                 /\ UNCHANGED AVATAR_CACHE
            ELSE /\ slot' = [slot EXCEPT ![s] = r.slot]
                 /\ AVATAR_CACHE' = r.cache
    /\ UNCHANGED <<files, next_msg_id, cx>>

on_new_message_DownloadMediaAborts(s) ==
    /\ Runnable(s)
    /\ slot[s].kind = "event" /\ slot[s].pc = "download_media"
    /\ \E outcome \in {"path", "none", "raises"} :
        LET local_path == IF outcome = "path" THEN Some(<<"files", s>>) ELSE None
            o == [slot[s] EXCEPT
                    !.calls = Append(@, Call("download_media", 0, 0, outcome # "raises", None)),
                    !.loc.local_path = local_path,
                    !.loc.attachments =
                        IF outcome = "path"
                        THEN <<[type |-> "image", payload |-> [url |-> Val(local_path)]]>>
                        ELSE <<>>]
            r == Userpic(o, AVATAR_CACHE)
        IN  IF outcome = "raises"
            THEN /\ slot' = [slot EXCEPT ![s] = [o EXCEPT !.pc = "done", !.resp = Returned]]
                 /\ UNCHANGED AVATAR_CACHE
            ELSE /\ slot' = [slot EXCEPT ![s] = r.slot]
                 /\ AVATAR_CACHE' = r.cache
    /\ UNCHANGED <<files, next_msg_id, cx>>

\* `await event.download_media(...)` returns a path, returns None, or raises
\* into the except of save_telegram_media_and_get_attachments; then
\* get_userpic_url up to its await or its return
on_new_message_DownloadMedia(s) ==
    /\ Runnable(s)
    /\ slot[s].kind = "event" /\ slot[s].pc = "download_media"
    /\ \E outcome \in {"path", "none", "raises"} :
        LET att_type == pager_attachment_type_from_telethon_event(slot[s].req)
            local_path == IF outcome = "path" THEN Some(<<"files", s>>) ELSE None
            o == [slot[s] EXCEPT
                    !.calls = Append(@, Call("download_media", 0, 0, outcome # "raises", None)),
                    !.loc.local_path = local_path,
                    !.loc.attachments =
                        IF outcome = "path"
                        THEN <<[type |-> IF att_type \in {"image", "video", "audio",
                                                          "document", "file"}
                                         THEN att_type ELSE "file",
                                payload |-> [url |-> Val(local_path)]]>>
                        ELSE <<>>]
            r == Userpic(o, AVATAR_CACHE)
        IN  /\ slot' = [slot EXCEPT ![s] = r.slot]
            /\ AVATAR_CACHE' = r.cache
    /\ UNCHANGED <<files, next_msg_id, cx>>

on_new_message_DownloadProfilePhotoCachesFailure(s) ==
    /\ Runnable(s)
    /\ slot[s].kind = "event" /\ slot[s].pc = "download_profile_photo"
    /\ \E outcome \in {"path", "none", "raises"} :
        LET user_id == Val(slot[s].loc.sender).id
            url == Some(<<"avatars", user_id>>)
            o == [slot[s] EXCEPT !.calls =
                    Append(@, Call("download_profile_photo", user_id, 0,
                                   outcome # "raises", None))]
        IN  /\ slot' = [slot EXCEPT ![s] =
                    Dispatch(o, IF outcome = "path" THEN url ELSE None)]
            /\ AVATAR_CACHE' =
                    IF outcome = "path" THEN [AVATAR_CACHE EXCEPT ![user_id] = Entry(url)]
                    ELSE [AVATAR_CACHE EXCEPT ![user_id] = Entry(None)]
    /\ UNCHANGED <<files, next_msg_id, cx>>

\* `await tg.download_profile_photo(...)` returns a path, returns None, or
\* raises into the except of get_userpic_url
on_new_message_DownloadProfilePhoto(s) ==
    /\ Runnable(s)
    /\ slot[s].kind = "event" /\ slot[s].pc = "download_profile_photo"
    /\ \E outcome \in {"path", "none", "raises"} :
        LET user_id == Val(slot[s].loc.sender).id
            url == Some(<<"avatars", user_id>>)
            o == [slot[s] EXCEPT !.calls =
                    Append(@, Call("download_profile_photo", user_id, 0,
                                   outcome # "raises", None))]
        IN  /\ slot' = [slot EXCEPT ![s] =
                    Dispatch(o, IF outcome = "path" THEN url ELSE None)]
            /\ AVATAR_CACHE' =
                    IF outcome = "path" THEN [AVATAR_CACHE EXCEPT ![user_id] = Entry(url)]
                    ELSE IF outcome = "none"
                    THEN [AVATAR_CACHE EXCEPT ![user_id] = Entry(None)]
                    ELSE AVATAR_CACHE
    /\ UNCHANGED <<files, next_msg_id, cx>>

on_new_message_PagerPostRetries(s) ==
    /\ slot[s].kind = "event" /\ slot[s].pc = "pager_post"
    /\ \E post \in PostOutcomes :
        LET again == post # "ok" /\ slot[s].calls[Len(slot[s].calls)].op # "pager_post"
        IN  slot' = [slot EXCEPT ![s] = [@ EXCEPT
                    !.calls = Append(@, CallPost(post = "ok", slot[s].loc.payload)),
                    !.pc = IF again THEN "pager_post" ELSE "done",
                    !.resp = IF again THEN None ELSE Returned]]
    /\ UNCHANGED <<files, next_msg_id, AVATAR_CACHE, cx>>

on_new_message_PagerPostPropagates(s) ==
    /\ slot[s].kind = "event" /\ slot[s].pc = "pager_post"
    /\ \E post \in PostOutcomes :
        slot' = [slot EXCEPT ![s] = [@ EXCEPT
                    !.calls = Append(@, CallPost(post = "ok", slot[s].loc.payload)),
                    !.pc = "done",
                    !.resp = IF post = "raises" THEN Some([status |-> "raised"])
                             ELSE Returned]]
    /\ UNCHANGED <<files, next_msg_id, AVATAR_CACHE, cx>>

\* requests.post answers below 400, answers from 400 on (printed), or raises
\* into the except of on_new_message (printed); the handler returns
on_new_message_PagerPost(s) ==
    /\ slot[s].kind = "event" /\ slot[s].pc = "pager_post"
    /\ \E post \in PostOutcomes :
        slot' = [slot EXCEPT ![s] = [@ EXCEPT
                    !.calls = Append(@, CallPost(post = "ok", slot[s].loc.payload)),
                    !.pc = "done", !.resp = Returned]]
    /\ UNCHANGED <<files, next_msg_id, AVATAR_CACHE, cx>>

Init ==
    /\ slot = [s \in Slots |-> IdleSlot]
    /\ files = {}
    /\ next_msg_id = 1
    /\ AVATAR_CACHE = [u \in UserIds |-> NoEntry]
    /\ cx = [stage |-> "off"]

Next ==
    \E s \in Slots :
        \/ pager_outbound_Auth(s)
        \/ pager_outbound_Validate(s)
        \/ pager_outbound_SendMessage(s)
        \/ pager_outbound_Get(s)
        \/ pager_outbound_SendFile(s)
        \/ start_chat_by_phone_Auth(s)
        \/ start_chat_by_phone_Validate(s)
        \/ start_chat_by_phone_Import(s)
        \/ start_chat_by_phone_SendMessage(s)
        \/ on_new_message_Start(s)
        \/ on_new_message_GetSender(s)
        \/ on_new_message_DownloadMedia(s)
        \/ on_new_message_DownloadProfilePhoto(s)
        \/ on_new_message_PagerPost(s)

Spec == Init /\ [][Next]_vars

(***************************************************************************)
(* The identifier codec on its own: a peer id is encoded as the inbound    *)
(* relay encodes it and the tag decoded as the outbound relay decodes it;  *)
(* or a tag is decoded and the result encoded again.                       *)
(***************************************************************************)
\* peer ids at the ends of the integers the checker holds
BigPeers == {2147483647, -2147483647, 1000000000, -1999999999}
PeerIds == ((0 - MaxPeer)..MaxPeer) \cup BigPeers
SuffixChars == {"0", "1", "5", "-", "+", " ", "_", "a", ":"}
Suffixes == SeqsUpTo(SuffixChars, MaxSuffixLen)
\* client.externalId values: absent, untagged, tagged with every suffix
Tags == {None} \cup {Some(x) : x \in Suffixes} \cup {Some(ContactPrefix \o x) : x \in Suffixes}

NoResult == [status |-> "none", peer_id |-> 0]

InitCodec ==
    /\ slot = [s \in Slots |-> IdleSlot]
    /\ files = {}
    /\ next_msg_id = 1
    /\ AVATAR_CACHE = [u \in UserIds |-> NoEntry]
    /\ cx \in {[stage |-> "peer", peer |-> P, tag |-> None, res |-> NoResult,
                 again |-> None] : P \in PeerIds}
             \cup {[stage |-> "tag", peer |-> 0, tag |-> T, res |-> NoResult,
                    again |-> None] : T \in Tags}

\* on_new_message, line 181: the tag of the peer
codec_Encode ==
    /\ cx.stage = "peer"
    /\ cx' = [cx EXCEPT !.stage = "encoded", !.tag = Some(client_external_id(cx.peer))]
    /\ UNCHANGED <<slot, files, next_msg_id, AVATAR_CACHE>>

\* pager_outbound, lines 222-225: the peer of the tag
codec_Decode ==
    /\ cx.stage \in {"encoded", "tag"}
    /\ cx' = [cx EXCEPT !.stage = IF cx.stage = "encoded" THEN "roundtrip" ELSE "decoded",
                        !.res = DecodeContact(cx.tag)]
    /\ UNCHANGED <<slot, files, next_msg_id, AVATAR_CACHE>>

\* the tag of a decoded peer, as the inbound relay would dispatch it
codec_EncodeAgain ==
    /\ cx.stage = "decoded" /\ cx.res.status = "ok"
    /\ cx' = [cx EXCEPT !.stage = "reencoded",
                        !.again = Some(client_external_id(cx.res.peer_id))]
    /\ UNCHANGED <<slot, files, next_msg_id, AVATAR_CACHE>>

NextCodec == codec_Encode \/ codec_Decode \/ codec_EncodeAgain

SpecCodec == InitCodec /\ [][NextCodec]_vars

(***************************************************************************)
(* Properties.                                                             *)
(***************************************************************************)
Outbound(s) == slot[s].kind = "outbound"
\* the request passed the key check and its body has been read
Validated(s) == Outbound(s) /\ slot[s].req.key = Some(PAGER_KEY) /\ slot[s].pc # "json"
\* the request passed every check and entered the try block
Entered(s) == Validated(s) /\ slot[s].loc # <<>>
Done(s) == slot[s].pc = "done"
Status(s) == Val(slot[s].resp).status
Ops(calls, ops) == {k \in 1..Len(calls) : calls[k].op \in ops}

\* C1: in every outbound request, at every moment: a send_file call is preceded
\* by the request's send_message call when the trimmed text is non-empty, no
\* send_message call follows a send_file call, and the send_file calls are in
\* the order of the attachments list; whatever the other handler in flight does.
C1_TextThenAttachmentsInOrder ==
    \A s \in Slots : Outbound(s) =>
        LET calls == slot[s].calls
        IN  /\ \A k \in Ops(calls, {"send_file", "get"}) :
                /\ Entered(s)
                /\ slot[s].loc.text # <<>> =>
                        \E j \in 1..(k - 1) : calls[j].op = "send_message"
            /\ \A k \in Ops(calls, {"send_message"}) :
                \A j \in 1..(k - 1) : calls[j].op \notin {"send_file", "get"}
            /\ \A j, k \in Ops(calls, {"send_file"}) : j < k => calls[j].att < calls[k].att

\* C1 witness: a request sent its text, skipped its first attachment (the fetch
\* failed) and sent its second, while the other handler made a call to the
\* source network between the two sends (its message id lies between theirs).
C1_Witness ==
    \E s, r \in Slots :
        /\ s # r /\ Outbound(s) /\ Done(s)
        /\ Len(slot[s].calls) = 4
        /\ slot[s].calls[1].op = "send_message" /\ slot[s].calls[1].ok
        /\ slot[s].calls[2].op = "get" /\ ~slot[s].calls[2].ok /\ slot[s].calls[2].att = 1
        /\ slot[s].calls[4].op = "send_file" /\ slot[s].calls[4].ok /\ slot[s].calls[4].att = 2
        /\ \E k \in 1..Len(slot[r].calls) :
              /\ ~IsNone(slot[r].calls[k].id)
              /\ Val(slot[s].calls[1].id) < Val(slot[r].calls[k].id)
              /\ Val(slot[r].calls[k].id) < Val(slot[s].calls[4].id)

\* C8: a peer id encoded by client_external_id and decoded by the decoding step
\* of pager_outbound comes back as the same peer id.
C8_RoundTrip ==
    cx.stage = "roundtrip" => cx.res.status = "ok" /\ cx.res.peer_id = cx.peer

\* C8 witness: a negative peer id of several digits made the round trip.
C8_Witness ==
    cx.stage = "roundtrip" /\ cx.peer = -2147483647 /\ cx.res.peer_id = -2147483647

\* C9: every tag the decoding step of pager_outbound accepts is the tag
\* client_external_id gives the decoded peer id: no malformed tag is coerced.
C9_NoCoercion ==
    cx.stage = "reencoded" => Val(cx.again) = Val(cx.tag)

\* the attachments of request s that the loop does not skip for an empty url
LiveAtts(s) == {j \in 1..Len(slot[s].loc.atts) : slot[s].loc.atts[j] # <<>>}
Failed(calls, op) == {k \in Ops(calls, {op}) : ~calls[k].ok}

\* C2: a request that entered the try block and whose text was sent (or that
\* had none) ends with status 200 and an externalMessageId, whatever fetch or
\* upload failed; by then every attachment with a url has been fetched, and
\* every attachment fetched has been given to send_file.
C2_AttachmentFailuresIsolated ==
    \A s \in Slots :
        (Entered(s) /\ Done(s) /\ Failed(slot[s].calls, "send_message") = {}) =>
            LET calls == slot[s].calls
            IN  /\ Status(s) = 200
                /\ "externalMessageId" \in DOMAIN Val(slot[s].resp).body
                /\ \A j \in LiveAtts(s) :
                      \E k \in Ops(calls, {"get"}) : calls[k].att = j
                /\ \A k \in Ops(calls, {"get"}) : calls[k].ok =>
                      \E m \in Ops(calls, {"send_file"}) : m > k /\ calls[m].att = calls[k].att

\* C2 witness: the fetch of the first attachment failed, the upload of the
\* second raised, and the request was answered 200.
C2_Witness ==
    \E s \in Slots :
        /\ Entered(s) /\ Done(s) /\ Status(s) = 200
        /\ \E k \in Failed(slot[s].calls, "get") : slot[s].calls[k].att = 1
        /\ \E k \in Failed(slot[s].calls, "send_file") : slot[s].calls[k].att = 2

\* C3: once the processing of an attachment has ended, its temporary file is
\* gone: a request holds a temporary file only while its send_file call is in
\* flight, and none when it has been answered.
C3_TempFileReleased ==
    \A f \in files :
        /\ slot[f[1]].pc = "send_file"
        /\ slot[f[1]].loc.i = f[2]

\* the id of the last call of the log that sent a message, None if none did
RECURSIVE LastSentId(_)
LastSentId(calls) ==
    IF calls = <<>> THEN None
    ELSE LET c == calls[Len(calls)]
         IN  IF c.op \in {"send_message", "send_file"} /\ c.ok THEN c.id
             ELSE LastSentId(SubSeq(calls, 1, Len(calls) - 1))

\* the digits of a well-formed contact tag
TagDigits(c_ext) == SubSeq(Val(c_ext), Len(ContactPrefix) + 1, Len(Val(c_ext)))

\* C4: the externalMessageId of an answered request that entered the try block
\* is "mtproto:<peerId>:<id>", <id> the id of the last message sent, text or
\* attachment, and "noid" exactly when none was sent.
C4_ExternalMessageId ==
    \A s \in Slots :
        (Entered(s) /\ Done(s) /\ Status(s) = 200) =>
            LET last == LastSentId(slot[s].calls)
                emi == Val(slot[s].resp).body.externalMessageId
                head == MtprotoPrefix \o TagDigits(slot[s].req.c_ext) \o <<":">>
            IN  /\ emi = head \o (IF IsNone(last) THEN NoId ELSE IntToStr(Val(last)))
                /\ (emi = head \o NoId) <=> IsNone(last)

\* C4 witness: the text was sent, the fetch of the one attachment failed, and
\* the response carries the id of the text message.
C4_Witness ==
    \E s \in Slots :
        /\ Entered(s) /\ Done(s) /\ Status(s) = 200
        /\ Len(slot[s].calls) = 2
        /\ slot[s].calls[1].op = "send_message" /\ slot[s].calls[1].ok
        /\ slot[s].calls[2].op = "get" /\ ~slot[s].calls[2].ok
        /\ Val(slot[s].resp).body.externalMessageId =
              MtprotoPrefix \o TagDigits(slot[s].req.c_ext) \o <<":">>
                  \o IntToStr(Val(slot[s].calls[1].id))

\* C5: a request to either endpoint whose x-channel-key is missing or is not
\* the configured key is answered 401 and has made no call: no send_message,
\* send_file, contact import or fetch, and has written no file.
C5_BadKeyRejected ==
    \A s \in Slots :
        (slot[s].kind \in {"outbound", "start_chat"} /\ slot[s].req.key # Some(PAGER_KEY)) =>
            /\ Done(s) /\ Status(s) = 401
            /\ slot[s].calls = <<>>
            /\ \A f \in files : f[1] # s

\* C5 witness: an outbound request without the header and a start-chat request
\* with another key have both been answered.
C5_Witness ==
    \E s, r \in Slots :
        /\ slot[s].kind = "outbound" /\ slot[s].req.key = None /\ Done(s)
        /\ slot[r].kind = "start_chat" /\ slot[r].req.key = Some("x") /\ Done(r)

\* the identifier is a contact tag
Tagged(c_ext) == ~IsNone(c_ext) /\ StartsWith(Val(c_ext), ContactPrefix)
\* the suffix of the tag is an optional minus sign and digits
IntegerSuffix(c_ext) ==
    LET d == TagDigits(c_ext)
        m == IF d # <<>> /\ d[1] = "-" THEN Tail(d) ELSE d
    IN  m # <<>> /\ \A i \in 1..Len(m) : m[i] \in DigitSet

\* C6: a message.created request whose identifier is a contact tag with a
\* suffix that is no integer is answered 400 and sends nothing.
C6_NonIntegerSuffixIs400 ==
    \A s \in Slots :
        (/\ Validated(s) /\ slot[s].req.event = Some("message.created")
         /\ Tagged(slot[s].req.c_ext) /\ ~IntegerSuffix(slot[s].req.c_ext)) =>
            /\ Done(s) /\ Status(s) = 400
            /\ slot[s].calls = <<>>

\* C7: a message.created request whose identifier is missing, empty or without
\* the contact-tag prefix is answered 400 and makes no send and no fetch.
C7_UntaggedIs400 ==
    \A s \in Slots :
        (/\ Validated(s) /\ slot[s].req.event = Some("message.created")
         /\ ~Tagged(slot[s].req.c_ext)) =>
            /\ Done(s) /\ Status(s) = 400
            /\ slot[s].calls = <<>>
            /\ \A f \in files : f[1] # s

\* C7 witness: a request with the identifier "tg_usr:5" has been answered,
\* and another with no identifier.
C7_Witness ==
    \E s, r \in Slots :
        /\ Validated(s) /\ slot[s].req.event = Some("message.created")
        /\ slot[s].req.c_ext = Some(<<"t", "g", "_", "u", "s", "r", ":">> \o Str_5)
        /\ Validated(r) /\ slot[r].req.event = Some("message.created")
        /\ slot[r].req.c_ext = None

\* C10: an event that is not private makes no call at all (no sender lookup,
\* no media or avatar download, no pager_post) and its handler has returned;
\* the step that takes it leaves the avatar cache as it was.
C10_GroupEventsDropped ==
    /\ [](\A s \in Slots : (slot[s].kind = "event" /\ ~slot[s].req.is_private) =>
            Done(s) /\ slot[s].calls = <<>>)
    /\ [][\A s \in Slots :
            (slot[s].kind = "idle" /\ slot'[s].kind = "event" /\ ~slot'[s].req.is_private) =>
                AVATAR_CACHE' = AVATAR_CACHE]_vars

\* C10 witness: a non-private event carrying media has been handled.
C10_Witness ==
    \E s \in Slots :
        /\ slot[s].kind = "event" /\ ~slot[s].req.is_private
        /\ slot[s].req.media = "photo" /\ Done(s)

(***************************************************************************)
(* Properties of the inbound relay.                                        *)
(***************************************************************************)
Inbound(s) == slot[s].kind = "event"
\* a private event whose sender lookup did not raise
Looked(s) ==
    /\ Inbound(s) /\ slot[s].req.is_private
    /\ slot[s].calls # <<>> /\ slot[s].calls[1].op = "get_sender" /\ slot[s].calls[1].ok
Posts(s) == Ops(slot[s].calls, {"pager_post"})
\* the payload handed to pager_post by the only dispatch of the event
Payload(s) == slot[s].calls[CHOOSE k \in Posts(s) : TRUE].payload
\* `event.raw_text or ""`
TextOf(event) == IF IsNone(event.raw_text) THEN <<>> ELSE Val(event.raw_text)
\* the event carries no media, or its download raised or returned no path
NoMediaSaved(s) ==
    \/ slot[s].req.media = "none"
    \/ \E k \in Ops(slot[s].calls, {"download_media"}) :
          ~slot[s].calls[k].ok \/ IsNone(slot[s].loc.local_path)

\* C11: a private event (its sender lookup did not raise) that carries no
\* media, or whose media download raised or returned no path, has, once its
\* handler returned, exactly one pager_post call, whose payload carries the
\* event's text as it came and an empty attachments list.
C11_MediaFailureStillDispatches ==
    \A s \in Slots : (Looked(s) /\ Done(s) /\ NoMediaSaved(s)) =>
        /\ Cardinality(Posts(s)) = 1
        /\ Payload(s).message.text = TextOf(slot[s].req)
        /\ Payload(s).message.attachments = <<>>

\* C11 witness: the media download of one event raised, that of another
\* returned no path, and both were dispatched with their text "hi ".
C11_Witness ==
    \E s, r \in Slots :
        /\ Looked(s) /\ Done(s) /\ slot[s].req.media = "photo"
        /\ \E k \in Ops(slot[s].calls, {"download_media"}) : ~slot[s].calls[k].ok
        /\ Posts(s) # {} /\ Payload(s).message.text = <<"h", "i", " ">>
        /\ Looked(r) /\ Done(r) /\ slot[r].req.media = "photo"
        /\ \E k \in Ops(slot[r].calls, {"download_media"}) : slot[r].calls[k].ok
        /\ IsNone(slot[r].loc.local_path)
        /\ Posts(r) # {} /\ Payload(r).message.attachments = <<>>

\* a call of the event's handling failed: it raised, or the webhook answered
\* from 400 on
FailedEvent(s) ==
    Inbound(s) /\ \E k \in 1..Len(slot[s].calls) : ~slot[s].calls[k].ok
\* the event of r arrived after the handler of the failed event of s returned
Later(s, r) == s # r /\ FailedEvent(s) /\ Inbound(r) /\ s \in slot[r].req.prior
\* the entity get_sender returned for the event
Sender(s) == Val(slot[s].loc.sender)
Resolved(s) == Looked(s) /\ ~IsNone(slot[s].loc.sender)
Downloads(s) == Ops(slot[s].calls, {"download_profile_photo"})

CallsOf(s, ops, i) == {k \in Ops(slot[s].calls, ops) : slot[s].calls[k].att = i}

\* C13: at every moment, under every interleaving: an event has made at most
\* one pager_post call (and one sender lookup, one media download, one photo
\* download); an outbound request at most one send_message call and, for each
\* attachment position of its list, at most one fetch and at most one
\* send_file call, none for a position beyond the list; a start-chat request
\* at most one import and one send_message.  A failed call is thus the last of
\* its kind.
C13_AtMostOnce ==
    \A s \in Slots :
        /\ Inbound(s) =>
            \A op \in {"pager_post", "get_sender", "download_media",
                       "download_profile_photo"} :
                Cardinality(Ops(slot[s].calls, {op})) <= 1
        /\ Outbound(s) =>
            /\ Cardinality(Ops(slot[s].calls, {"send_message"})) <= 1
            /\ \A k \in Ops(slot[s].calls, {"get", "send_file"}) :
                /\ Entered(s) /\ slot[s].calls[k].att \in 1..Len(slot[s].loc.atts)
                /\ Cardinality(CallsOf(s, {slot[s].calls[k].op}, slot[s].calls[k].att)) = 1
        /\ slot[s].kind = "start_chat" =>
            \A op \in {"import", "send_message"} :
                Cardinality(Ops(slot[s].calls, {op})) <= 1

\* C13 witness: an outbound request is answered whose first attachment could
\* not be fetched and whose second could not be sent, each tried once; the
\* dispatch of an event failed and its handler returned.
C13_Witness ==
    \E s, r \in Slots :
        /\ Outbound(s) /\ Done(s) /\ Entered(s)
        /\ \E k \in CallsOf(s, {"get"}, 1) : ~slot[s].calls[k].ok
        /\ \E k \in CallsOf(s, {"send_file"}, 2) : ~slot[s].calls[k].ok
        /\ Inbound(r) /\ Done(r)
        /\ \E k \in Posts(r) : ~slot[r].calls[k].ok

\* a step of the outbound request of r
OutboundStep(r) ==
    \/ pager_outbound_Validate(r)
    \/ pager_outbound_SendMessage(r)
    \/ pager_outbound_Get(r)
    \/ pager_outbound_SendFile(r)

\* C14, as stated: while an event's handler is inside pager_post, a pending
\* outbound request (accepted, not yet answered) can take its next step.
C14_DispatchDoesNotStallOutbound ==
    \A s, r \in Slots :
        (Inbound(s) /\ slot[s].pc = "pager_post" /\ Outbound(r) /\ ~Done(r)) =>
            ENABLED OutboundStep(r)

\* get_userpic_url has returned for the event of s
AvatarResolved(s) == Resolved(s) /\ slot[s].pc \in {"pager_post", "done"}
\* the avatar of contact u, who had no photo, was resolved without a download
\* and the absence marker is in the cache
AbsenceCached(u) ==
    /\ AVATAR_CACHE[u] = Entry(None)
    /\ \E s \in Slots : /\ AvatarResolved(s) /\ Sender(s).id = u
                        /\ ~Sender(s).photo /\ Downloads(s) = {}

\* C15, as stated: an event of a contact whose absence marker is cached is
\* resolved without a download and dispatched without imageUrl, and the
\* marker, once stored for a contact without photo, stays for good.
C15_AbsenceMarkerPermanent ==
    [][\A u \in UserIds : AbsenceCached(u) =>
            /\ AVATAR_CACHE'[u] = Entry(None)
            /\ \A s \in Slots :
                (slot[s].pc \in {"get_sender", "download_media"} /\ AvatarResolved(s)'
                 /\ Sender(s)'.id = u) =>
                    /\ Downloads(s)' = {}
                    /\ IsNone(slot'[s].loc.payload.client.imageUrl)]_vars

\* the profile-photo download of the event raised
DownloadRaised(s) ==
    Inbound(s) /\ \E k \in Downloads(s) : ~slot[s].calls[k].ok

\* C16: the step in which a profile-photo download raises leaves the avatar
\* cache as it was and takes the handler to its dispatch, the payload without
\* imageUrl; once the handler returned, that payload has been handed to
\* pager_post, once; and a resolve that finds no cache entry for a sender with
\* a photo starts a download, also after a download for that sender raised.
C16_ResolverFailureDegradesToNull ==
    /\ [](\A s \in Slots : DownloadRaised(s) =>
            /\ slot[s].pc \in {"pager_post", "done"}
            /\ IsNone(slot[s].loc.payload.client.imageUrl)
            /\ Done(s) => /\ slot[s].resp = Returned
                          /\ Cardinality(Posts(s)) = 1
                          /\ Payload(s) = slot[s].loc.payload)
    /\ [][\A s \in Slots :
            /\ (~DownloadRaised(s) /\ DownloadRaised(s)') => AVATAR_CACHE' = AVATAR_CACHE
            /\ (/\ slot[s].pc \in {"get_sender", "download_media"}
                /\ slot'[s].pc \notin {"get_sender", "download_media"}
                /\ Resolved(s)' /\ Sender(s)'.photo
                /\ ~AVATAR_CACHE[Sender(s)'.id].present) =>
                    slot'[s].pc = "download_profile_photo"]_vars

\* C16 witness: the photo download of an event raised and the event was
\* dispatched; a later event of the same sender started the download again,
\* which this time gave a url.
C16_Witness ==
    \E s, r \in Slots :
        /\ Later(s, r) /\ DownloadRaised(s) /\ Done(s) /\ Posts(s) # {}
        /\ Resolved(r) /\ Sender(r).id = Sender(s).id
        /\ \E k \in Downloads(r) : slot[r].calls[k].ok
        /\ AVATAR_CACHE[Sender(r).id].present
        /\ ~IsNone(AVATAR_CACHE[Sender(r).id].url)

(***************************************************************************)
(* Properties of start_chat_by_phone.                                      *)
(***************************************************************************)
\* the request passed the key check and its body has been read
StartChat(s) ==
    slot[s].kind = "start_chat" /\ slot[s].req.key = Some(PAGER_KEY) /\ slot[s].pc # "json"
\* `(data.get("phone") or "").strip()`
PhoneOf(s) == IF IsNone(slot[s].req.phone) THEN <<>> ELSE Strip(Val(slot[s].req.phone))
Sends(s) == Ops(slot[s].calls, {"send_message"})

\* C17: of an authenticated start-chat request whose body has been read: a
\* phone that, trimmed, does not start with "+" is answered 400 and no call is
\* made; when the import returned no user the answer is 404 and the import is
\* the only call; when it returned a user, the answered request has made
\* exactly one send_message call, to that user, and if the send succeeded the
\* answer is 200 with clientExternalId "tg_user:" followed by the decimal
\* digits of the user's id, and with the id of the sent message.
C17_StartChatOutcomes ==
    \A s \in Slots : StartChat(s) =>
        LET calls == slot[s].calls
            user_id == slot[s].loc.user_id
            imported == calls # <<>> /\ calls[1].op = "import" /\ calls[1].ok
        IN  /\ ~StartsWith(PhoneOf(s), <<"+">>) =>
                Done(s) /\ Status(s) = 400 /\ calls = <<>>
            /\ (imported /\ user_id = 0) =>
                Done(s) /\ Status(s) = 404 /\ Len(calls) = 1
            /\ (imported /\ user_id # 0 /\ Done(s)) =>
                /\ Cardinality(Sends(s)) = 1 /\ Len(calls) = 2
                /\ calls[2].op = "send_message" /\ calls[2].to = user_id
                /\ calls[2].ok =>
                    /\ Status(s) = 200
                    /\ Val(slot[s].resp).body.clientExternalId
                            = ContactPrefix \o IntToStr(user_id)
                    /\ Val(slot[s].resp).body.telegramUserId = user_id
                    /\ Val(slot[s].resp).body.sentMessageId = calls[2].id
                    /\ ~IsNone(calls[2].id)

\* C17 witness: one request, phone " +38", found user 12 and is answered 200
\* with "tg_user:12"; for another the import returned no user.
C17_Witness ==
    \E s, r \in Slots :
        /\ StartChat(s) /\ Done(s) /\ Status(s) = 200
        /\ slot[s].req.phone = Some(<<" ", "+", "3", "8">>)
        /\ Val(slot[s].resp).body.clientExternalId
                = <<"t", "g", "_", "u", "s", "e", "r", ":", "1", "2">>
        /\ StartChat(r) /\ Done(r) /\ Status(r) = 404

(***************************************************************************)
(* Further properties of pager_outbound.                                   *)
(***************************************************************************)
\* C18: an outbound request with a wrong or missing key is answered 401
\* before its body is read; one with a valid key whose event is not
\* "message.created" (or is missing) is answered 200 with externalMessageId
\* "ignored", has made no call and left no file, whatever its
\* client.externalId; only for "message.created" does a missing or wrongly
\* tagged identifier give 400.
C18_OtherEventsIgnored ==
    \A s \in Slots : Outbound(s) =>
        /\ ~KeyOk(slot[s].req.key) =>
            Done(s) /\ Status(s) = 401 /\ slot[s].calls = <<>>
        /\ (Validated(s) /\ slot[s].req.event # Some("message.created")) =>
            /\ Done(s) /\ Status(s) = 200
            /\ Val(slot[s].resp).body = [externalMessageId |-> IgnoredId]
            /\ slot[s].calls = <<>>
            /\ \A f \in files : f[1] # s
        /\ (Validated(s) /\ slot[s].req.event = Some("message.created")
            /\ DecodeContact(slot[s].req.c_ext).status = "http400") =>
            Done(s) /\ Status(s) = 400

\* C18 witness: a "message.updated" request without identifier and a request
\* without event whose identifier is "tg_user:a" have both been answered
\* "ignored".
C18_Witness ==
    \E s, r \in Slots :
        /\ Validated(s) /\ slot[s].req.event = Some("message.updated")
        /\ slot[s].req.c_ext = None /\ Done(s) /\ Status(s) = 200
        /\ Validated(r) /\ slot[r].req.event = None
        /\ slot[r].req.c_ext = Some(ContactPrefix \o <<"a">>)
        /\ Done(r) /\ Status(r) = 200

\* C19: an outbound request whose send_message call failed is answered 500
\* with the detail "send failed" and an empty body (no externalMessageId), and
\* the failed send_message is its only call: no attachment was fetched or sent
\* and no file written.
C19_SendFailureIs500 ==
    \A s \in Slots :
        (Outbound(s) /\ \E k \in Ops(slot[s].calls, {"send_message"}) : ~slot[s].calls[k].ok) =>
            /\ Done(s) /\ Status(s) = 500
            /\ Val(slot[s].resp).detail = "send failed"
            /\ Val(slot[s].resp).body = <<>>
            /\ Len(slot[s].calls) = 1
            /\ \A f \in files : f[1] # s

\* C19 witness: the send_message of a request with two attachments that have
\* urls failed.
C19_Witness ==
    \E s \in Slots :
        /\ Outbound(s) /\ Entered(s) /\ Done(s)
        /\ slot[s].calls # <<>> /\ slot[s].calls[1].op = "send_message"
        /\ ~slot[s].calls[1].ok
        /\ Len(slot[s].loc.atts) = 2
        /\ \A j \in 1..2 : slot[s].loc.atts[j] # <<>>

\* C20, as stated: every payload handed to pager_post carries "tg_msg:" and
\* the event's id, the direction "outgoing" exactly for events with `out` set,
\* and "tg_user:" with the id of the contact of the conversation (the chat of
\* the private event), for outgoing events too, never the bridge's own id.
C20_PayloadNamesTheContact ==
    \A s \in Slots : Inbound(s) =>
        \A k \in Posts(s) :
            LET payload == slot[s].calls[k].payload
            IN  /\ payload.message.externalId = MessagePrefix \o IntToStr(slot[s].req.id)
                /\ payload.message.direction = "outgoing" <=> slot[s].req.out
                /\ payload.client.externalId
                        = ContactPrefix \o IntToStr(slot[s].req.chat_id)
                /\ payload.client.externalId # ContactPrefix \o IntToStr(SelfId)

====
